---- MODULE Spec2Model ----
(***************************************************************************)
(* Model of linux/flutter_local_db_plugin.cc: the GObject type boilerplate *)
(* of FlutterLocalDbPlugin (G_DEFINE_TYPE, class and instance              *)
(* initialisers, the FLUTTER_LOCAL_DB_PLUGIN cast macro) and the empty     *)
(* registration function, run inside a host that owns the type system,     *)
(* the registrars, the message channels and the main loop.                 *)
(***************************************************************************)
EXTENDS Integers, Sequences, FiniteSets, TLC

(* ---------------------------- bounds ----------------------------------- *)
\* Types other components register with the type system.
MaxOtherTypes == 2
\* References held on one object or registrar.
MaxRef == 2
\* Interactions recorded on one registrar.
MaxInteractions == 1
\* Conditions (warnings, criticals) signalled to the log.
MaxLog == 1

(* ---------------------------- values ----------------------------------- *)
NULL == "NULL"
\* The registrar handles the host owns, and every handle a caller can pass.
Registrars == {"r1", "r2"}
Handles == Registrars \cup {NULL}
\* Addresses at which the host can allocate a plugin object.
ObjectAddrs == {"o1", "o2"}
\* An address holding no object: no type, no reference.
Free == [parent_instance |-> [g_type |-> 0, ref_count |-> 0]]
\* The class structure before the class is initialised.
NoClass == [dispose |-> NULL, finalize |-> NULL]
PluginTypeName == "FlutterLocalDbPlugin"
OtherTypeName == "OtherType"
PluginOwner == "flutter_local_db"
HostOwner == "host"

Range(s) == {s[i] : i \in 1..Len(s)}
Count(s, x) == Cardinality({i \in 1..Len(s) : s[i] = x})

VARIABLES
  static_g_define_type_id, \* G_DEFINE_TYPE's static: 0 until the type is registered
  type_nodes,              \* the type system: names of the registered types, by id
  type_ids_returned,       \* every value flutter_local_db_plugin_get_type has returned
  klass,                   \* FlutterLocalDbPluginClass, NoClass until first construction
  objects,                 \* the heap: address -> Free or a FlutterLocalDbPlugin
  registrars,              \* registrar -> reference count and recorded interactions
  channels,                \* message/event handlers installed on the messenger
  sources,                 \* work pending on the main loop
  log,                     \* conditions signalled so far
  registered               \* history: a register call has returned to the host

vars == <<static_g_define_type_id, type_nodes, type_ids_returned, klass, objects,
          registrars, channels, sources, log, registered>>

(* ------------------- the object type (lines 10-20) ---------------------- *)
\* g_object_get_type(): the parent type, present before any plugin code runs.
g_object_get_type == <<"GObject">>

\* The class structure FlutterLocalDbPluginClass inherits from GObjectClass.
GObjectClass == [dispose |-> "g_object_real_dispose", finalize |-> "g_object_finalize"]

\* struct _FlutterLocalDbPlugin { GObject parent_instance; }
FlutterLocalDbPlugin(g_type) ==
  [parent_instance |-> [g_type |-> g_type, ref_count |-> 1]]

\* Registration of the type under its name: a fresh id, or 0 when the name
\* is already taken (the type system refuses a second registration).
flutter_local_db_plugin_get_type_once(nodes) ==
  IF PluginTypeName \in Range(nodes)
    THEN [id |-> 0, nodes |-> nodes]
    ELSE [id |-> Len(nodes) + 1, nodes |-> Append(nodes, PluginTypeName)]

\* Faulty variant: the once-guard is missing, every call registers again.
get_type_without_once(sid, nodes) ==
  LET r == flutter_local_db_plugin_get_type_once(nodes)
  IN  [id |-> r.id, static |-> r.id, nodes |-> r.nodes]

\* flutter_local_db_plugin_get_type(): register once, then return the static.
flutter_local_db_plugin_get_type(sid, nodes) ==
  IF sid = 0
    THEN LET r == flutter_local_db_plugin_get_type_once(nodes)
         IN  [id |-> r.id, static |-> r.id, nodes |-> r.nodes]
    ELSE [id |-> sid, static |-> sid, nodes |-> nodes]

\* flutter_local_db_plugin_class_init(klass): empty body.
flutter_local_db_plugin_class_init(k) == k

\* Faulty variant: the initialiser keeps a singleton and drops the reference on every
\* instance built before.
init_replaces_singleton(objs, self) ==
  [a \in DOMAIN objs |->
     IF a = self \/ objs[a] = Free THEN objs[a]
     ELSE IF objs[a].parent_instance.ref_count = 1 THEN Free
     ELSE [objs[a] EXCEPT !.parent_instance.ref_count = @ - 1]]

\* flutter_local_db_plugin_init(self): empty body, the heap is left as it is.
flutter_local_db_plugin_init(objs, self) == objs

Init ==
  /\ static_g_define_type_id = 0
  /\ type_nodes = g_object_get_type
  /\ type_ids_returned = {}
  /\ klass = NoClass
  /\ objects = [a \in ObjectAddrs |-> Free]
  /\ registrars = [r \in Registrars |-> [ref_count |-> 1, interactions |-> <<>>]]
  /\ channels = {}
  /\ sources = {}
  /\ log = 0
  /\ registered = FALSE

\* The host's bootstrap calls the type-registration hook.
GetType ==
  LET t == flutter_local_db_plugin_get_type(static_g_define_type_id, type_nodes)
  IN  /\ static_g_define_type_id' = t.static
      /\ type_nodes' = t.nodes
      /\ type_ids_returned' = type_ids_returned \cup {t.id}
      /\ UNCHANGED <<klass, objects, registrars, channels, sources, log, registered>>

\* g_object_new(flutter_local_db_plugin_get_type(), NULL) at a free address:
\* the class is initialised on first use, the header is set up, then the
\* instance initialiser runs.
g_object_new(self) ==
  /\ objects[self] = Free
  /\ LET t == flutter_local_db_plugin_get_type(static_g_define_type_id, type_nodes)
     IN  /\ t.id # 0
         /\ static_g_define_type_id' = t.static
         /\ type_nodes' = t.nodes
         /\ type_ids_returned' = type_ids_returned \cup {t.id}
         /\ klass' = IF klass = NoClass
                       THEN flutter_local_db_plugin_class_init(GObjectClass)
                       ELSE klass
         /\ objects' = flutter_local_db_plugin_init(
                         [objects EXCEPT ![self] = FlutterLocalDbPlugin(t.id)], self)
  /\ UNCHANGED <<registrars, channels, sources, log, registered>>

\* g_object_ref on a live instance.
g_object_ref(self) ==
  /\ objects[self] # Free
  /\ objects[self].parent_instance.ref_count < MaxRef
  /\ objects' = [objects EXCEPT ![self].parent_instance.ref_count = @ + 1]
  /\ UNCHANGED <<static_g_define_type_id, type_nodes, type_ids_returned, klass,
                 registrars, channels, sources, log, registered>>

\* g_object_unref on a live instance: the last reference finalises it.
g_object_unref(self) ==
  /\ objects[self] # Free
  /\ objects' = IF objects[self].parent_instance.ref_count = 1
                  THEN [objects EXCEPT ![self] = Free]
                  ELSE [objects EXCEPT ![self].parent_instance.ref_count = @ - 1]
  /\ UNCHANGED <<static_g_define_type_id, type_nodes, type_ids_returned, klass,
                 registrars, channels, sources, log, registered>>

\* FLUTTER_LOCAL_DB_PLUGIN(obj): G_TYPE_CHECK_INSTANCE_CAST against
\* flutter_local_db_plugin_get_type().  NULL and instances of the type pass
\* silently; any other object (here: a registrar) is reported as an invalid
\* cast when the build keeps cast checks, and passes silently when it does not.
FLUTTER_LOCAL_DB_PLUGIN(obj) ==
  LET t == flutter_local_db_plugin_get_type(static_g_define_type_id, type_nodes)
  IN  /\ obj \in Registrars \/ obj = NULL \/ (obj \in ObjectAddrs /\ objects[obj] # Free)
      /\ static_g_define_type_id' = t.static
      /\ type_nodes' = t.nodes
      /\ type_ids_returned' = type_ids_returned \cup {t.id}
      /\ IF obj \in Registrars
           THEN \/ log < MaxLog /\ log' = log + 1
                \/ log' = log
           ELSE log' = log
      /\ UNCHANGED <<klass, objects, registrars, channels, sources, registered>>

(* ------------------- registration (lines 22-24) ------------------------- *)
\* Faulty variant: register fetches the messenger from its registrar, as a plugin that
\* sets up a method channel does; the registrar records the call.
register_gets_messenger(registrar) ==
  /\ registered' = TRUE
  /\ registrars' = [r \in Registrars |->
                      IF r = registrar
                        THEN [registrars[r] EXCEPT !.interactions = Append(@, "get_messenger")]
                        ELSE registrars[r]]
  /\ UNCHANGED <<static_g_define_type_id, type_nodes, type_ids_returned, klass,
                 objects, channels, sources, log>>

\* Faulty variant: register installs a method-call handler on a channel of its own.
register_installs_handler(registrar) ==
  /\ registered' = TRUE
  /\ channels' = channels \cup {[owner |-> PluginOwner, name |-> "flutter_local_db"]}
  /\ UNCHANGED <<static_g_define_type_id, type_nodes, type_ids_returned, klass,
                 objects, registrars, sources, log>>

\* Faulty variant: register asserts a non-NULL registrar; a NULL handle aborts the call.
register_asserts_registrar(registrar) ==
  /\ registrar # NULL
  /\ registered' = TRUE
  /\ UNCHANGED <<static_g_define_type_id, type_nodes, type_ids_returned, klass,
                 objects, registrars, channels, sources, log>>

\* Faulty variant: register validates its argument and signals a critical on NULL.
register_checks_registrar(registrar) ==
  /\ registered' = TRUE
  /\ log' = IF registrar = NULL THEN log + 1 ELSE log
  /\ UNCHANGED <<static_g_define_type_id, type_nodes, type_ids_returned, klass,
                 objects, registrars, channels, sources>>

\* Faulty variant: register defers its work to an idle callback on the main loop.
register_schedules_idle(registrar) ==
  /\ registered' = TRUE
  /\ sources' = sources \cup {[owner |-> PluginOwner, kind |-> "idle"]}
  /\ UNCHANGED <<static_g_define_type_id, type_nodes, type_ids_returned, klass,
                 objects, registrars, channels, log>>

\* Faulty variant: register keeps a reference on the registrar it was given.
register_refs_registrar(registrar) ==
  /\ registered' = TRUE
  /\ registrars' = [r \in Registrars |->
                      IF r = registrar
                        THEN [registrars[r] EXCEPT !.ref_count = @ + 1]
                        ELSE registrars[r]]
  /\ UNCHANGED <<static_g_define_type_id, type_nodes, type_ids_returned, klass,
                 objects, channels, sources, log>>

\* Faulty variant: register refuses a second call.
register_once_only(registrar) ==
  /\ ~registered
  /\ registered' = TRUE
  /\ UNCHANGED <<static_g_define_type_id, type_nodes, type_ids_returned, klass,
                 objects, registrars, channels, sources, log>>

\* flutter_local_db_plugin_register_with_registrar(registrar): empty body.
\* The call returns to the host, which from then on has the plugin registered.
flutter_local_db_plugin_register_with_registrar(registrar) ==
  /\ registered' = TRUE
  /\ UNCHANGED <<static_g_define_type_id, type_nodes, type_ids_returned, klass,
                 objects, registrars, channels, sources, log>>

(* --------------------------- the host ----------------------------------- *)
\* Another component registers a type of its own.
HostRegistersType ==
  /\ Count(type_nodes, OtherTypeName) < MaxOtherTypes
  /\ type_nodes' = Append(type_nodes, OtherTypeName)
  /\ UNCHANGED <<static_g_define_type_id, type_ids_returned, klass, objects,
                 registrars, channels, sources, log, registered>>

\* The host uses a registrar: the use is recorded on it.
HostUsesRegistrar(r) ==
  /\ Len(registrars[r].interactions) < MaxInteractions
  /\ registrars' = [registrars EXCEPT ![r].interactions = Append(@, "get_messenger")]
  /\ UNCHANGED <<static_g_define_type_id, type_nodes, type_ids_returned, klass,
                 objects, channels, sources, log, registered>>

\* The host takes or drops a reference on a registrar; the registry keeps one.
HostRefRegistrar(r) ==
  /\ registrars[r].ref_count < MaxRef
  /\ registrars' = [registrars EXCEPT ![r].ref_count = @ + 1]
  /\ UNCHANGED <<static_g_define_type_id, type_nodes, type_ids_returned, klass,
                 objects, channels, sources, log, registered>>

HostUnrefRegistrar(r) ==
  /\ registrars[r].ref_count > 1
  /\ registrars' = [registrars EXCEPT ![r].ref_count = @ - 1]
  /\ UNCHANGED <<static_g_define_type_id, type_nodes, type_ids_returned, klass,
                 objects, channels, sources, log, registered>>

\* Another component installs or removes a handler of its own.
HostInstallsHandler ==
  /\ channels' = channels \cup {[owner |-> HostOwner, name |-> "host/channel"]}
  /\ channels' # channels
  /\ UNCHANGED <<static_g_define_type_id, type_nodes, type_ids_returned, klass,
                 objects, registrars, sources, log, registered>>

HostRemovesHandler ==
  /\ \E c \in channels : c.owner = HostOwner /\ channels' = channels \ {c}
  /\ UNCHANGED <<static_g_define_type_id, type_nodes, type_ids_returned, klass,
                 objects, registrars, sources, log, registered>>

\* The host schedules work on the main loop, and the main loop runs it.
HostSchedules ==
  /\ sources' = sources \cup {[owner |-> HostOwner, kind |-> "idle"]}
  /\ sources' # sources
  /\ UNCHANGED <<static_g_define_type_id, type_nodes, type_ids_returned, klass,
                 objects, registrars, channels, log, registered>>

MainLoopRuns ==
  /\ \E s \in sources : sources' = sources \ {s}
  /\ UNCHANGED <<static_g_define_type_id, type_nodes, type_ids_returned, klass,
                 objects, registrars, channels, log, registered>>

Next ==
  \/ GetType
  \/ \E a \in ObjectAddrs : g_object_new(a)
  \/ \E a \in ObjectAddrs : g_object_ref(a)
  \/ \E a \in ObjectAddrs : g_object_unref(a)
  \/ \E o \in Handles \cup ObjectAddrs : FLUTTER_LOCAL_DB_PLUGIN(o)
  \/ \E h \in Handles : flutter_local_db_plugin_register_with_registrar(h)
  \/ HostRegistersType
  \/ \E r \in Registrars : HostUsesRegistrar(r)
  \/ \E r \in Registrars : HostRefRegistrar(r)
  \/ \E r \in Registrars : HostUnrefRegistrar(r)
  \/ HostInstallsHandler
  \/ HostRemovesHandler
  \/ HostSchedules
  \/ MainLoopRuns

Spec == Init /\ [][Next]_vars

(* ============================ claims ==================================== *)
Live(a) == objects[a] # Free
register(h) == flutter_local_db_plugin_register_with_registrar(h)

\* C1: for every handle and every state of the registrars, a register call
\* leaves every registrar as it was: its recorded interactions and the rest of
\* its state are the same after the call as before it, so interactions that
\* are empty before the call are empty after it.
C1_RegisterLeavesRegistrarUnchanged ==
  \A h \in Handles : ~ENABLED (register(h) /\ registrars' # registrars)

\* C1 witness: register has been called, one registrar still has no recorded
\* interaction and the other carries one the host made.
C1_Witness ==
  /\ registered
  /\ registrars["r1"].interactions = <<>>
  /\ registrars["r2"].interactions # <<>>

\* C2: no handler owned by the plugin is ever installed, whatever calls were
\* made, and a register call never changes the set of installed handlers.
C2_NoPluginHandler ==
  /\ \A c \in channels : c.owner # PluginOwner
  /\ \A h \in Handles : ~ENABLED (register(h) /\ channels' # channels)

\* C2 witness: after register, type registration and a construction, the only
\* handler installed is the host's.
C2_Witness ==
  /\ registered
  /\ static_g_define_type_id # 0
  /\ \E a \in ObjectAddrs : Live(a)
  /\ channels # {}

\* C3: the type-registration hook never returns 0, and all its calls return
\* one and the same identifier, the one held in the static.
C3_TypeIdStable ==
  /\ 0 \notin type_ids_returned
  /\ Cardinality(type_ids_returned) <= 1
  /\ type_ids_returned # {} => type_ids_returned = {static_g_define_type_id}

\* C3 witness: the hook was called several times (by two constructions and by a
\* reported cast) with a register call and a foreign type registration between.
C3_Witness ==
  /\ type_ids_returned # {}
  /\ \A a \in ObjectAddrs : Live(a)
  /\ log > 0
  /\ registered
  /\ Count(type_nodes, OtherTypeName) > 0

\* C4: registration has two states; it starts unregistered, every register
\* call is possible in every state and ends registered, registered is never
\* left, and only a register call changes the registration state.
C4_RegistrationStateMachine ==
  /\ ~registered
  /\ [](registered \in BOOLEAN /\ \A h \in Handles : ENABLED register(h))
  /\ [][/\ \A h \in Handles : register(h) => registered'
        /\ registered => registered'
        /\ registered' # registered => \E h \in Handles : register(h)]_vars

\* C4 witness: registered, with host activity having followed the call.
C4_Witness ==
  /\ registered
  /\ sources # {}
  /\ \E r \in Registrars : registrars[r].ref_count > 1

\* C5: in every reachable state and for every handle, NULL included, a register
\* call is possible, completes, and signals no condition.
C5_RegisterCannotFail ==
  \A h \in Handles :
    /\ ENABLED register(h)
    /\ ~ENABLED (register(h) /\ log' # log)

\* C5 witness: register has completed in a state where a condition signalled
\* by something else is on the log.
C5_Witness == registered /\ log > 0

\* C6: an instance holds the base-type header and nothing else, the class is
\* the inherited one, a construction sets up the new header only, and neither
\* construction nor destruction of one instance changes any other instance.
C6_IndependentInstances ==
  /\ [](/\ \A a \in ObjectAddrs : DOMAIN objects[a] = {"parent_instance"}
        /\ klass \in {NoClass, GObjectClass})
  /\ [][\A a \in ObjectAddrs :
          /\ g_object_new(a) =>
               /\ objects'[a] = FlutterLocalDbPlugin(static_g_define_type_id')
               /\ \A b \in ObjectAddrs \ {a} : objects'[b] = objects[b]
          /\ g_object_unref(a) =>
               \A b \in ObjectAddrs \ {a} : objects'[b] = objects[b]]_vars

\* C6 witness: two live instances whose headers differ.
C6_Witness ==
  /\ Live("o1") /\ Live("o2")
  /\ objects["o1"].parent_instance.ref_count = 1
  /\ objects["o2"].parent_instance.ref_count = MaxRef

\* C7: a register call, once started, has returned in the next state, and it
\* leaves the pending work of the main loop as it was; no pending work is ever
\* owned by the plugin.
C7_RegisterReturnsAtOnce ==
  /\ \A s \in sources : s.owner # PluginOwner
  /\ \A h \in Handles :
       /\ ENABLED register(h)
       /\ ~ENABLED (register(h) /\ (~registered' \/ sources' # sources))

\* C7 witness: register has returned while work of the host is pending.
C7_Witness == registered /\ sources # {} /\ log = 0

\* C8: a register call creates and destroys no instance and changes no
\* reference count, of an instance or of a registrar.
C8_RegisterHoldsNoResource ==
  \A h \in Handles :
    ~ENABLED (/\ register(h)
              /\ \/ objects' # objects
                 \/ \E r \in Registrars :
                      registrars'[r].ref_count # registrars[r].ref_count)

\* C8 witness: register has been called, the host holds a live instance and an
\* extra reference on a registrar.
C8_Witness ==
  /\ registered
  /\ Live("o1") /\ ~Live("o2")
  /\ registrars["r1"].ref_count = MaxRef

\* C9: register is possible in every state, and once register has been called
\* a further call, with any handle, changes nothing.
C9_RegisterIdempotent ==
  \A h \in Handles :
    /\ ENABLED register(h)
    /\ registered => ~ENABLED (register(h) /\ vars' # vars)

\* C9 witness: registered, with the type registered and an instance built.
C9_Witness ==
  /\ registered
  /\ static_g_define_type_id # 0
  /\ Live("o2")
  /\ channels = {}
====
